---- MODULE Spec2Model ----
(***************************************************************************)
(* Text-selection tracker (hooks/useTextSelection.js) and the floating     *)
(* follow-up control (components/FollowUpButton/index.jsx).                *)
(*                                                                         *)
(* Strings are sequences of one-character strings, so that trim(), the     *)
(* punctuation test and the follow-up template are computed, not assumed.  *)
(* Time is in milliseconds.  A timer is run by the event loop when its     *)
(* delay has elapsed: time does not pass a pending timer's deadline.       *)
(***************************************************************************)
EXTENDS Integers, Sequences, FiniteSets, TLC

\* ------------------------------------------------------------------ bounds
\* setTimeout calls the tracker may make in one run
MaxTimers == 3
\* setTimeout(..., 0) callbacks of the control that may be waiting at once
MaxCaretTimers == 1
\* longest text the validator specification enumerates
MaxTextLen == 5

\* ------------------------------------------------------- program constants
DebounceMs == 100
buttonWidth == 100
buttonHeight == 40
Gap == 8

\* ------------------------------------------------------------------- text
Whitespace == {" ", "\t", "\n"}
\* a sample of the Unicode class \p{P}
Punctuation == {".", ",", "!", "?", "\"", ":", "-"}

RECURSIVE trimStart(_)
trimStart(s) ==
  IF s # <<>> /\ Head(s) \in Whitespace THEN trimStart(Tail(s)) ELSE s

RECURSIVE trimEnd(_)
trimEnd(s) ==
  IF s # <<>> /\ s[Len(s)] \in Whitespace
    THEN trimEnd(SubSeq(s, 1, Len(s) - 1))
    ELSE s

\* a trim that strips leading whitespace only
trimLeadingOnly(s) == trimStart(s)

\* String.prototype.trim
trim(s) == trimEnd(trimStart(s))

\* a test that takes whitespace inside the text for content
OnlyPunct(s) == \A i \in 1..Len(s) : s[i] \in Punctuation

\* /^[\s\p{P}]*$/u.test(s)
OnlySpaceOrPunct(s) ==
  \A i \in 1..Len(s) : s[i] \in Whitespace \cup Punctuation

\* -------------------------------------------------------------------- DOM
\* document > body > { msg1 > { p1 > text1, quote > text5 }, msg2 > text2,
\* user > text3, btn }, and a shadow tree: shadow > text4.  msg1, msg2 and
\* quote (an element of msg1's content that carries the marker itself) have
\* data-message-role="assistant", btn has data-followup-button="true".
NoNode == "null"
Nodes ==
  {"document", "body", "msg1", "p1", "text1", "msg2", "text2",
   "user", "text3", "btn", "shadow", "text4", "quote", "text5"}

nodeType(n) ==
  CASE n \in {"text1", "text2", "text3", "text4", "text5"} -> "TEXT_NODE"
    [] n = "document" -> "DOCUMENT_NODE"
    [] n = "shadow" -> "DOCUMENT_FRAGMENT_NODE"
    [] OTHER -> "ELEMENT_NODE"

parentNode(n) ==
  CASE n = "body" -> "document"
    [] n \in {"msg1", "msg2", "user", "btn"} -> "body"
    [] n \in {"p1", "quote"} -> "msg1"
    [] n = "text1" -> "p1"
    [] n = "text2" -> "msg2"
    [] n = "text3" -> "user"
    [] n = "text4" -> "shadow"
    [] n = "text5" -> "quote"
    [] OTHER -> NoNode

\* Node.parentElement: the parent when it is an element, else null
parentElement(n) ==
  IF parentNode(n) # NoNode /\ nodeType(parentNode(n)) = "ELEMENT_NODE"
    THEN parentNode(n)
    ELSE NoNode

AssistantMessages == {"msg1", "msg2", "quote"}
FollowupButtons == {"btn"}

\* Only elements have closest(); calling it on null, on the document or on a
\* document fragment raises a TypeError.
HasClosest(n) == n # NoNode /\ nodeType(n) = "ELEMENT_NODE"

\* Element.closest(selector), for a selector matching the elements of marked:
\* the element itself or its nearest ancestor element in marked, else null
RECURSIVE closest(_, _)
closest(n, marked) ==
  IF n = NoNode THEN NoNode
  ELSE IF n \in marked THEN n
  ELSE closest(parentElement(n), marked)

\* inclusive ancestors of a node, the node first
RECURSIVE Ancestors(_)
Ancestors(n) ==
  IF n = NoNode THEN <<>> ELSE <<n>> \o Ancestors(parentNode(n))

InSeq(x, s) == \E i \in 1..Len(s) : s[i] = x

\* Range.commonAncestorContainer: the deepest node containing both ends
commonAncestorContainer(range) ==
  LET a == Ancestors(range.startContainer)
      b == Ancestors(range.endContainer)
      i == CHOOSE k \in 1..Len(a) :
             /\ InSeq(a[k], b)
             /\ \A j \in 1..(k - 1) : ~InSeq(a[j], b)
  IN  a[i]

\* a lookup that starts at the node itself, text node or not
ElementOfSelf(n) == n

\* text-node-to-parent-element normalisation (lines 30-32, 43-48)
ElementOf(n) == IF nodeType(n) = "TEXT_NODE" THEN parentElement(n) ELSE n

\* -------------------------------------------------------------- validator
Returns(v) == [threw |-> FALSE, value |-> v]
Throws == [threw |-> TRUE, value |-> FALSE]

NoRange == [none |-> TRUE]
NoRect == [none |-> TRUE]

\* a validator without the test for the loading indicator
validateSelectionIgnoresStreaming(selectedText, range, streamingNow) ==
  IF selectedText = <<>> \/ range = NoRange THEN Returns(FALSE)
  ELSE LET trimmedText == trim(selectedText) IN
  IF Len(trimmedText) < 5 THEN Returns(FALSE)
  ELSE IF OnlySpaceOrPunct(trimmedText) THEN Returns(FALSE)
  ELSE LET messageElement == ElementOf(commonAncestorContainer(range)) IN
  IF ~HasClosest(messageElement) THEN Throws
  ELSE LET messageContainer == closest(messageElement, AssistantMessages) IN
  IF messageContainer = NoNode THEN Returns(FALSE)
  ELSE LET startContainer == ElementOf(range.startContainer)
           endContainer == ElementOf(range.endContainer) IN
  IF ~HasClosest(startContainer) \/ ~HasClosest(endContainer) THEN Throws
  ELSE LET startMessage == closest(startContainer, AssistantMessages)
           endMessage == closest(endContainer, AssistantMessages) IN
  Returns(startMessage = endMessage /\ startMessage = messageContainer)

\* validateSelection(selectedText, range); streamingNow is the set of
\* assistant messages that contain a .dot-falling element
validateSelection(selectedText, range, streamingNow) ==
  IF selectedText = <<>> \/ range = NoRange THEN Returns(FALSE)
  ELSE LET trimmedText == trim(selectedText) IN
  IF Len(trimmedText) < 5 THEN Returns(FALSE)
  ELSE IF OnlySpaceOrPunct(trimmedText) THEN Returns(FALSE)
  ELSE LET messageElement == ElementOf(commonAncestorContainer(range)) IN
  IF ~HasClosest(messageElement) THEN Throws
  ELSE LET messageContainer == closest(messageElement, AssistantMessages) IN
  IF messageContainer = NoNode THEN Returns(FALSE)
  ELSE IF messageContainer \in streamingNow THEN Returns(FALSE)
  ELSE LET startContainer == ElementOf(range.startContainer)
           endContainer == ElementOf(range.endContainer) IN
  IF ~HasClosest(startContainer) \/ ~HasClosest(endContainer) THEN Throws
  ELSE LET startMessage == closest(startContainer, AssistantMessages)
           endMessage == closest(endContainer, AssistantMessages) IN
  Returns(startMessage = endMessage /\ startMessage = messageContainer)

\* ---------------------------------------------------------- sample inputs
\* "selected text"
TextSelected ==
  <<"s", "e", "l", "e", "c", "t", "e", "d", " ", "t", "e", "x", "t">>
\* " hello\n": five characters once trimmed
TextPadded == <<" ", "h", "e", "l", "l", "o", "\n">>
\* " hi   ": six characters, two once trimmed
TextShort == <<" ", "h", "i", " ", " ", " ">>
\* "?!...!": punctuation only
TextPunct == <<"?", "!", ".", ".", ".", "!">>

Rect(t, b, l, r) == [top |-> t, bottom |-> b, left |-> l, right |-> r]
RectA == Rect(700, 720, 900, 950)
RectB == Rect(10, 30, 0, 30)

Range(s, e, rect) == [startContainer |-> s, endContainer |-> e, rect |-> rect]
Live(text, ranges) == [text |-> text, ranges |-> ranges]
NoLive == Live(<<>>, <<>>)

\* the live selections the user can make in the main specification
LiveSelections ==
  { NoLive,
    Live(TextSelected, <<Range("text1", "text1", RectA)>>),
    Live(TextPadded, <<Range("text2", "text2", RectB)>>),
    Live(TextShort, <<Range("text1", "text1", RectA)>>),
    Live(TextSelected, <<Range("text1", "text2", RectA)>>),
    Live(TextSelected, <<Range("document", "document", RectA)>>) }

Viewport(w, h) == [innerWidth |-> w, innerHeight |-> h]
MainViewport == Viewport(1000, 800)

ClickTargets == {"document", "body", "msg1", "p1", "user", "btn"}
TickSteps == {50, 100}

\* ------------------------------------------------------------------ state
VARIABLES
  selection,            \* useState value {text, isValid, range, boundingRect}
  selectionTimeoutRef,  \* selectionTimeoutRef.current: a timer id, 0 for null
  timers,               \* the event loop's active timers: {id, remaining ms}
  nextTimerId,          \* the handle the next setTimeout returns
  phase,                \* "created", "started" (effect ran), "stopped"
  liveSel,              \* window.getSelection(): its text and its ranges
  streaming,            \* assistant messages that contain .dot-falling
  viewport,             \* window.innerWidth, window.innerHeight
  rendered,             \* what FollowUpButton rendered for selection
  elapsed,              \* ms since the last selection-change notification
  atDispatch,           \* what the callback would have computed at that time
  passes,               \* runs of the debounced callback since then
  caretTimers,          \* pending setTimeout(..., 0) callbacks of handleClick
  burst,                \* notifications since the last one that came
                        \* DebounceMs or more after its predecessor
  resetWhilePending,    \* clear() or an outside click reset the state while
                        \* the timer last set was pending, and the live
                        \* selection has not been changed since
  last                  \* the step taken last and what it did: its name,
                        \* whether it threw out to the event loop, a click's
                        \* target, and for handleClick the hook it was
                        \* given, its calls in order and the payloads of
                        \* the PROMPT_INPUT_EVENTs it dispatched

vars ==
  <<selection, selectionTimeoutRef, timers, nextTimerId, phase, liveSel, streaming,
    viewport, rendered, elapsed, atDispatch, passes, caretTimers, burst,
    resetWhilePending, last>>

EmptySelection ==
  [text |-> <<>>, isValid |-> FALSE, range |-> NoRange, boundingRect |-> NoRect]

\* ---------------------------------------------------- follow-up control
HalfWidth == 50
NoRender == [none |-> TRUE]

\* a right-edge test that also fires when the control just fits
buttonStyleEagerRight(boundingRect, vp) ==
  LET viewportWidth == vp.innerWidth
      viewportHeight == vp.innerHeight
      top0 == boundingRect.bottom + Gap
      left0 == boundingRect.right - HalfWidth
      horizontal ==
        IF left0 - buttonWidth \div 2 < 0
          THEN [left |-> boundingRect.left, transform |-> "translateX(0)"]
        ELSE IF left0 + buttonWidth \div 2 >= viewportWidth
          THEN [left |-> boundingRect.right, transform |-> "translateX(-100%)"]
        ELSE [left |-> left0, transform |-> "translateX(-50%)"]
      top ==
        IF top0 + buttonHeight > viewportHeight
          THEN boundingRect.top - buttonHeight - Gap
          ELSE top0
  IN  [top |-> top, left |-> horizontal.left, transform |-> horizontal.transform]

\* a positioning whose vertical flip is skipped after a horizontal correction
buttonStyleCoupled(boundingRect, vp) ==
  LET viewportWidth == vp.innerWidth
      viewportHeight == vp.innerHeight
      top0 == boundingRect.bottom + Gap
      left0 == boundingRect.right - HalfWidth
      horizontal ==
        IF left0 - buttonWidth \div 2 < 0
          THEN [left |-> boundingRect.left, transform |-> "translateX(0)"]
        ELSE IF left0 + buttonWidth \div 2 > viewportWidth
          THEN [left |-> boundingRect.right, transform |-> "translateX(-100%)"]
        ELSE [left |-> left0, transform |-> "translateX(-50%)"]
      top ==
        IF horizontal.left = left0 /\ top0 + buttonHeight > viewportHeight
          THEN boundingRect.top - buttonHeight - Gap
          ELSE top0
  IN  [top |-> top, left |-> horizontal.left, transform |-> horizontal.transform]

\* lines 45-77: the fixed position of the control for a bounding rect
buttonStyle(boundingRect, vp) ==
  LET viewportWidth == vp.innerWidth
      viewportHeight == vp.innerHeight
      top0 == boundingRect.bottom + Gap
      left0 == boundingRect.right - HalfWidth
      horizontal ==
        IF left0 - buttonWidth \div 2 < 0
          THEN [left |-> boundingRect.left, transform |-> "translateX(0)"]
        ELSE IF left0 + buttonWidth \div 2 > viewportWidth
          THEN [left |-> boundingRect.right, transform |-> "translateX(-100%)"]
        ELSE [left |-> left0, transform |-> "translateX(-50%)"]
      top ==
        IF top0 + buttonHeight > viewportHeight
          THEN boundingRect.top - buttonHeight - Gap
          ELSE top0
  IN  [top |-> top, left |-> horizontal.left, transform |-> horizontal.transform]

\* lines 9-12 and 71-89: nothing is rendered for a state that is not valid
FollowUpButton(sel, vp) ==
  IF ~sel.isValid \/ sel.boundingRect = NoRect
    THEN NoRender
    ELSE buttonStyle(sel.boundingRect, vp)

\* a template that loses the closing quote
followUpTextUnquoted(text) ==
  <<"F", "o", "l", "l", "o", "w", " ", "u", "p", " ", "o", "n", ":", " ", "\"">>
    \o text

\* line 16: `Follow up on: "${selection.text}"`
followUpText(text) ==
  <<"F", "o", "l", "l", "o", "w", " ", "u", "p", " ", "o", "n", ":", " ", "\"">>
    \o text \o <<"\"">>

Step(name) ==
  [op |-> name, threw |-> FALSE, target |-> NoNode, hook |-> "none",
   steps |-> <<>>, dispatched |-> <<>>]
Thrown(name) == [Step(name) EXCEPT !.threw = TRUE]

\* ---------------------------------------------------------------- tracker
\* setSelection: the state is replaced and the control is rendered again
setSelection(s) ==
  /\ selection' = s
  /\ rendered' = FollowUpButton(s, viewport)

\* lines 87-94: the copy of range.getBoundingClientRect()
CopyRect(rect) ==
  [top |-> rect.top, left |-> rect.left, right |-> rect.right,
   bottom |-> rect.bottom, width |-> rect.right - rect.left,
   height |-> rect.bottom - rect.top]

\* a callback that resets only isValid and text when validation fails
DebouncedResultPartial(live, streamingNow) ==
  IF live.text = <<>> \/ Len(live.ranges) = 0
    THEN [threw |-> FALSE, state |-> EmptySelection]
  ELSE LET range == live.ranges[1]
           isValid == validateSelection(live.text, range, streamingNow) IN
  IF isValid.threw THEN [threw |-> TRUE, state |-> EmptySelection]
  ELSE IF isValid.value
    THEN [threw |-> FALSE,
          state |-> [text |-> trim(live.text), isValid |-> TRUE, range |-> range,
                     boundingRect |-> CopyRect(range.rect)]]
    ELSE [threw |-> FALSE,
          state |-> [EmptySelection EXCEPT !.range = range]]

\* lines 65-103: what the debounced callback does with the live selection;
\* threw: validateSelection raised and setSelection was never reached
DebouncedResult(live, streamingNow) ==
  IF live.text = <<>> \/ Len(live.ranges) = 0
    THEN [threw |-> FALSE, state |-> EmptySelection]
  ELSE LET range == live.ranges[1]
           isValid == validateSelection(live.text, range, streamingNow) IN
  IF isValid.threw THEN [threw |-> TRUE, state |-> EmptySelection]
  ELSE IF isValid.value
    THEN [threw |-> FALSE,
          state |-> [text |-> trim(live.text), isValid |-> TRUE, range |-> range,
                     boundingRect |-> CopyRect(range.rect)]]
    ELSE [threw |-> FALSE, state |-> EmptySelection]

\* clearTimeout(id): the timer with that handle is removed if it is active
clearTimeout(ts, id) == {t \in ts : t.id # id}

\* a handler that never cancels the timer it replaces
CancelNothing(ts, ref) == ts

\* a handler whose ref keeps the handle of the first timer ever set
CancelFirstOnly(ts, ref) == clearTimeout(ts, 1)

\* lines 59-61 and 143-145: if (ref.current) clearTimeout(ref.current)
CancelPending(ts, ref) == IF ref # 0 THEN clearTimeout(ts, ref) ELSE ts

\* a reset that leaves the browser's selection as it is
removeNoRanges == UNCHANGED liveSel

\* window.getSelection().removeAllRanges()
removeAllRanges == liveSel' = NoLive

\* a clear() that resets the state and leaves the browser selection alone
clearSelectionBodyKeepsRanges ==
  setSelection(EmptySelection) /\ UNCHANGED liveSel

\* lines 127-133: the body of clearSelection
clearSelectionBody == removeAllRanges /\ setSelection(EmptySelection)

Min(a, b) == IF a < b THEN a ELSE b
ElapsedCap == DebounceMs + DebounceMs

Init ==
  /\ selection = EmptySelection
  /\ selectionTimeoutRef = 0
  /\ timers = {}
  /\ nextTimerId = 1
  /\ phase = "created"
  /\ liveSel = NoLive
  /\ streaming = {"msg2"}
  /\ viewport = MainViewport
  /\ rendered = NoRender
  /\ elapsed = 0
  /\ atDispatch = [threw |-> FALSE, state |-> EmptySelection]
  /\ passes = 0
  /\ caretTimers = <<>>
  /\ burst = 0
  /\ resetWhilePending = FALSE
  /\ last = Step("init")

\* lines 136-139: the effect subscribes the two listeners
Start ==
  /\ phase = "created"
  /\ phase' = "started"
  /\ last' = Step("start")
  /\ UNCHANGED <<selection, selectionTimeoutRef, timers, nextTimerId, liveSel,
                 streaming, viewport, rendered, elapsed, atDispatch, passes,
                 caretTimers>>
  /\ UNCHANGED <<burst, resetWhilePending>>

\* lines 57-64: a selectionchange notification reaches the tracker
handleSelectionChange ==
  /\ phase = "started"
  /\ nextTimerId <= MaxTimers
  /\ timers' = CancelPending(timers, selectionTimeoutRef)
                  \cup {[id |-> nextTimerId, remaining |-> DebounceMs]}
  /\ selectionTimeoutRef' = nextTimerId
  /\ nextTimerId' = nextTimerId + 1
  /\ elapsed' = 0
  /\ atDispatch' = DebouncedResult(liveSel, streaming)
  /\ passes' = 0
  /\ burst' = IF burst > 0 /\ elapsed < DebounceMs THEN burst + 1 ELSE 1
  /\ resetWhilePending' = FALSE
  /\ last' = Step("selectionchange")
  /\ UNCHANGED <<selection, phase, liveSel, streaming, viewport, rendered,
                 caretTimers>>

\* lines 64-104: the event loop runs a timer whose delay has elapsed
DebouncedCallback ==
  \E t \in timers :
    /\ t.remaining = 0
    /\ timers' = timers \ {t}
    /\ LET r == DebouncedResult(liveSel, streaming) IN
         IF r.threw
           THEN /\ last' = Thrown("timer")
                /\ UNCHANGED <<selection, rendered>>
           ELSE /\ setSelection(r.state)
                /\ last' = Step("timer")
    /\ passes' = passes + 1
    /\ UNCHANGED <<selectionTimeoutRef, nextTimerId, phase, liveSel,
                   streaming, viewport, elapsed, atDispatch, caretTimers>>
  /\ UNCHANGED <<burst, resetWhilePending>>

\* lines 108-123: a click notification reaches the tracker
handleClickOutside(target) ==
  /\ phase = "started"
  /\ IF ~HasClosest(target)
       THEN /\ last' = [Thrown("click") EXCEPT !.target = target]
            /\ UNCHANGED <<selection, rendered, liveSel, resetWhilePending>>
       ELSE LET messageContainer == closest(target, AssistantMessages)
                followupButton == closest(target, FollowupButtons) IN
            /\ IF messageContainer = NoNode /\ followupButton = NoNode
                 THEN /\ removeAllRanges /\ setSelection(EmptySelection)
                      /\ resetWhilePending' = (timers # {})
                 ELSE UNCHANGED <<selection, rendered, liveSel,
                                  resetWhilePending>>
            /\ last' = [Step("click") EXCEPT !.target = target]
  /\ UNCHANGED <<selectionTimeoutRef, timers, nextTimerId, phase, streaming,
                 viewport, elapsed, atDispatch, passes, caretTimers>>
  /\ UNCHANGED burst

\* lines 126-134: clear().  The owner holds clearSelection only while the
\* hook is mounted; React drops a setSelection made after the unmount.
clearSelection ==
  /\ phase = "started"
  /\ clearSelectionBody
  /\ resetWhilePending' = (timers # {})
  /\ last' = Step("clear")
  /\ UNCHANGED <<selectionTimeoutRef, timers, nextTimerId, phase, streaming,
                 viewport, elapsed, atDispatch, passes, caretTimers>>
  /\ UNCHANGED burst

\* a cleanup that unsubscribes and forgets the pending timer
CleanupKeepsTimer ==
  /\ phase = "started"
  /\ phase' = "stopped"
  /\ last' = Step("stop")
  /\ UNCHANGED <<selection, selectionTimeoutRef, timers, nextTimerId, liveSel,
                 streaming, viewport, rendered, elapsed, atDispatch, passes,
                 caretTimers, burst, resetWhilePending>>

\* lines 140-146: the effect's cleanup, stop()
Cleanup ==
  /\ phase = "started"
  /\ phase' = "stopped"
  /\ timers' = CancelPending(timers, selectionTimeoutRef)
  /\ last' = Step("stop")
  /\ UNCHANGED <<selection, selectionTimeoutRef, nextTimerId, liveSel,
                 streaming, viewport, rendered, elapsed, atDispatch, passes,
                 caretTimers>>
  /\ UNCHANGED <<burst, resetWhilePending>>

\* the user or a script changes the live selection
Select(live) ==
  /\ live # liveSel
  /\ liveSel' = live
  /\ resetWhilePending' = FALSE
  /\ last' = Step("select")
  /\ UNCHANGED <<selection, selectionTimeoutRef, timers, nextTimerId, phase,
                 streaming, viewport, rendered, elapsed, atDispatch, passes,
                 caretTimers>>
  /\ UNCHANGED burst

\* the renderer adds or removes the loading indicator of msg2
StreamingChange ==
  /\ streaming' = IF streaming = {} THEN {"msg2"} ELSE {}
  /\ last' = Step("streaming")
  /\ UNCHANGED <<selection, selectionTimeoutRef, timers, nextTimerId, phase,
                 liveSel, viewport, rendered, elapsed, atDispatch, passes,
                 caretTimers>>
  /\ UNCHANGED <<burst, resetWhilePending>>

Faults == {"none", "dispatchEvent", "focus", "onFollowUp"}
Hooks == {"none", "clearSelection"}

\* FollowUpButton lines 14-42: the control is activated.  fault is the call
\* of the try block that raises, if any; textarea tells whether
\* querySelector finds the text-entry element; onFollowUp is the hook passed
\* by the owner: none, or the tracker's clearSelection.
handleClick(fault, textarea, onFollowUp) ==
  /\ phase = "started"
  /\ rendered # NoRender
  /\ Len(caretTimers) < MaxCaretTimers
  /\ fault = "focus" => textarea
  /\ fault = "onFollowUp" => onFollowUp # "none"
  /\ LET text == followUpText(selection.text)
         dispatched == fault # "dispatchEvent"
         focused == dispatched /\ textarea /\ fault # "focus"
         hookCalled ==
           dispatched /\ fault # "focus" /\ onFollowUp # "none"
         hookDone == hookCalled /\ fault # "onFollowUp"
         steps ==
           (IF dispatched THEN <<"dispatchEvent">> ELSE <<>>)
             \o (IF focused THEN <<"focus", "setTimeout">> ELSE <<>>)
             \o (IF hookCalled THEN <<"onFollowUp">> ELSE <<>>)
             \o (IF fault # "none" THEN <<"console.error">> ELSE <<>>)
     IN  /\ caretTimers' =
              IF focused THEN Append(caretTimers, Len(text)) ELSE caretTimers
         /\ IF hookDone
              THEN clearSelectionBody /\ resetWhilePending' = (timers # {})
              ELSE UNCHANGED <<liveSel, selection, rendered,
                               resetWhilePending>>
         /\ last' =
              [Step("activate") EXCEPT
                 !.hook = onFollowUp,
                 !.steps = steps,
                 !.dispatched = IF dispatched THEN <<text>> ELSE <<>>]
  /\ UNCHANGED <<selectionTimeoutRef, timers, nextTimerId, phase, streaming,
                 viewport, elapsed, atDispatch, passes>>
  /\ UNCHANGED burst

\* FollowUpButton lines 30-32: the deferred caret placement runs, outside the
\* try block; fault: setSelectionRange raises
CaretCallback(fault) ==
  /\ caretTimers # <<>>
  /\ caretTimers' = Tail(caretTimers)
  /\ last' = IF fault THEN Thrown("caret") ELSE Step("caret")
  /\ UNCHANGED <<selection, selectionTimeoutRef, timers, nextTimerId, phase,
                 liveSel, streaming, viewport, rendered, elapsed, atDispatch,
                 passes>>
  /\ UNCHANGED <<burst, resetWhilePending>>

\* d ms pass; no pending timer is overtaken
Tick(d) ==
  /\ caretTimers = <<>>
  /\ \A t \in timers : t.remaining >= d
  /\ timers' = {[t EXCEPT !.remaining = @ - d] : t \in timers}
  /\ elapsed' = Min(elapsed + d, ElapsedCap)
  /\ last' = Step("tick")
  /\ UNCHANGED <<selection, selectionTimeoutRef, nextTimerId, phase, liveSel,
                 streaming, viewport, rendered, atDispatch, passes,
                 caretTimers>>
  /\ UNCHANGED <<burst, resetWhilePending>>

Next ==
  \/ Start
  \/ handleSelectionChange
  \/ DebouncedCallback
  \/ \E target \in ClickTargets : handleClickOutside(target)
  \/ clearSelection
  \/ Cleanup
  \/ \E live \in LiveSelections : Select(live)
  \/ StreamingChange
  \/ \E fault \in Faults, textarea \in BOOLEAN, onFollowUp \in Hooks :
       handleClick(fault, textarea, onFollowUp)
  \/ \E fault \in BOOLEAN : CaretCallback(fault)
  \/ \E d \in TickSteps : Tick(d)

Spec == Init /\ [][Next]_vars

\* ------------------------------------------- positioning, over many rects
\* edges of the bounding rects and the viewports the positioning is run on
PosTops == {10, 30, 700, 720, 752, 753, 790}
PosLefts == {0, 30, 99, 100, 900, 950, 1000, 1001}
PosRects ==
  {rect \in [top : PosTops, bottom : PosTops, left : PosLefts,
             right : PosLefts] : rect.top < rect.bottom /\ rect.left < rect.right}
PosViewports == {Viewport(1000, 800), Viewport(400, 300)}

\* the tracker before it starts, the user having selected text of msg1 that
\* lies at some rect of some viewport
PosInit ==
  /\ selection = EmptySelection
  /\ selectionTimeoutRef = 0
  /\ timers = {}
  /\ nextTimerId = 1
  /\ phase = "created"
  /\ \E rect \in PosRects :
       liveSel = Live(TextSelected, <<Range("text1", "text1", rect)>>)
  /\ streaming = {}
  /\ viewport \in PosViewports
  /\ rendered = NoRender
  /\ elapsed = 0
  /\ atDispatch = [threw |-> FALSE, state |-> EmptySelection]
  /\ passes = 0
  /\ caretTimers = <<>>
  /\ burst = 0
  /\ resetWhilePending = FALSE
  /\ last = Step("init")

\* the steps that take that selection to the rendered control
PosNext ==
  \/ Start
  \/ handleSelectionChange
  \/ DebouncedCallback
  \/ \E d \in TickSteps : Tick(d)

SpecPos == PosInit /\ [][PosNext]_vars

\* ------------------------------------ the validator, over many selections
\* a whitespace character, a punctuation character and a letter
Alphabet == {" ", ".", "a"}
\* every text of up to MaxTextLen characters, and the sample texts
ValTexts ==
  UNION {[1..k -> Alphabet] : k \in 0..MaxTextLen}
    \cup {TextSelected, TextPadded, TextShort, TextPunct}

\* the nodes in tree order
DocumentOrder ==
  <<"document", "body", "msg1", "p1", "text1", "quote", "text5", "msg2",
    "text2", "user", "text3", "btn", "shadow", "text4">>
Position(n) == CHOOSE i \in 1..Len(DocumentOrder) : DocumentOrder[i] = n
Root(n) == Ancestors(n)[Len(Ancestors(n))]

\* a Range's start is not after its end, and both are in one tree; a node
\* and its ancestor can be boundary containers in either order
IsRange(s, e) ==
  /\ Root(s) = Root(e)
  /\ \/ InSeq(s, Ancestors(e))
     \/ InSeq(e, Ancestors(s))
     \/ Position(s) < Position(e)

ValContainers ==
  {"document", "body", "msg1", "text1", "quote", "text5", "text2", "text3",
   "text4"}

\* getSelection(): no range, one range, or two of them
ValRanges ==
  {<<>>, <<Range("text1", "text1", RectA), Range("text2", "text2", RectB)>>}
    \cup {<<Range(p[1], p[2], RectA)>> :
            p \in {q \in ValContainers \X ValContainers : IsRange(q[1], q[2])}}

\* where the loading indicator can be: nowhere, in msg2, in msg1 outside
\* quote, inside quote (and so inside msg1)
ValStreamings == {{}, {"msg2"}, {"msg1"}, {"msg1", "quote"}}

\* the started tracker 100ms after the one notification it received, the
\* live selection and the indicator being as they were at the notification
ValInit ==
  /\ selection = EmptySelection
  /\ selectionTimeoutRef = 1
  /\ timers = {[id |-> 1, remaining |-> 0]}
  /\ nextTimerId = 2
  /\ phase = "started"
  /\ \E text \in ValTexts, ranges \in ValRanges : liveSel = Live(text, ranges)
  /\ streaming \in ValStreamings
  /\ viewport = MainViewport
  /\ rendered = NoRender
  /\ elapsed = DebounceMs
  /\ atDispatch = DebouncedResult(liveSel, streaming)
  /\ passes = 0
  /\ caretTimers = <<>>
  /\ burst = 1
  /\ resetWhilePending = FALSE
  /\ last = Step("tick")

\* the timer fires and the callback validates that selection
ValNext == DebouncedCallback

SpecVal == ValInit /\ [][ValNext]_vars

\* ------------------------------------------------ the tracker's progress
\* the tracker alone, without the control: notifications, changes of the
\* live selection, clear(), stop(), and time
LiveNext ==
  \/ Start
  \/ handleSelectionChange
  \/ DebouncedCallback
  \/ clearSelection
  \/ Cleanup
  \/ \E live \in LiveSelections : Select(live)
  \/ \E d \in TickSteps : Tick(d)

\* a timer's delay has elapsed: the callback is enabled
TimerDue == \E t \in timers : t.remaining = 0

\* time does not stand still, and the event loop runs a timer that is due:
\* weak fairness of Tick and of DebouncedCallback, the latter with its
\* enabling condition, TimerDue, written out
SpecLive ==
  /\ Init
  /\ [][LiveNext]_vars
  /\ WF_vars(\E d \in TickSteps : Tick(d))
  /\ ([]<>~TimerDue \/ []<><<DebouncedCallback>>_vars)

\* ================================================================ claims
InsideAny(n, marked) ==
  \E i \in 1..Len(Ancestors(n)) : Ancestors(n)[i] \in marked

Count(x, seq) == Cardinality({i \in 1..Len(seq) : seq[i] = x})

\* C1: in every reachable state the four fields are either the empty state
\* or a complete valid state (isValid with non-empty text, a range and a
\* bounding rect), so isValid holds iff the other three are set; the control
\* renders exactly for the valid states.
C1_ValidIffComplete ==
  /\ selection.isValid <=>
       (selection.text # <<>> /\ selection.range # NoRange
          /\ selection.boundingRect # NoRect)
  /\ ~selection.isValid => selection = EmptySelection
  /\ rendered # NoRender <=> selection.isValid

C1_Witness ==
  /\ last.op = "timer"
  /\ selection.isValid
  /\ selection.text = <<"h", "e", "l", "l", "o">>

\* C2 as written: a debounced pass comes 100ms after the last notification,
\* is the only one since then, and leaves the state computed from the
\* selection as it was when that notification was dispatched.
C2_UsesSelectionAtDispatch ==
  (last.op = "timer" /\ ~atDispatch.threw) =>
    /\ elapsed = DebounceMs
    /\ passes = 1
    /\ selection = atDispatch.state

\* C2 amended: a debounced pass comes exactly 100ms after the last
\* notification and is the only one since then; until then that
\* notification's timer is the one waiting, with the rest of the 100ms to
\* go; the pass reads the live selection as it is when the timer fires, and
\* a pass that updates the state leaves it empty or valid for that selection.
C2_DebounceReadsLiveSelection ==
  /\ passes <= 1
  /\ last.op = "timer" => (elapsed = DebounceMs /\ passes = 1)
  /\ (phase = "started" /\ burst > 0 /\ passes = 0) =>
       /\ elapsed <= DebounceMs
       /\ timers = {[id |-> selectionTimeoutRef,
                     remaining |-> DebounceMs - elapsed]}
  /\ (phase = "started" /\ elapsed > DebounceMs) => timers = {}
  /\ (last.op = "timer" /\ ~last.threw) =>
       /\ selection.isValid =>
            /\ liveSel.ranges # <<>>
            /\ selection.range = liveSel.ranges[1]
            /\ selection.text = trim(liveSel.text)
       /\ liveSel = NoLive => selection = EmptySelection

\* a burst of three notifications answered by one pass, which found the
\* selection made after the last of them
C2_Witness ==
  /\ last.op = "timer"
  /\ burst = 3
  /\ passes = 1
  /\ selection.isValid
  /\ ~atDispatch.state.isValid

\* C3: once stop() has returned the state is never updated again, no timer
\* is left to fire, and the tracker stays stopped.
C3_NoUpdateAfterStop ==
  [][phase = "stopped" =>
       /\ timers = {}
       /\ selection' = selection
       /\ rendered' = rendered
       /\ phase' = "stopped"]_vars

\* stop() came within 100ms of a notification whose pass would have made
\* the state valid; more than 100ms later the state is still empty
C3_Witness ==
  /\ phase = "stopped"
  /\ burst > 0
  /\ passes = 0
  /\ elapsed > DebounceMs
  /\ atDispatch.state.isValid
  /\ DebouncedResult(liveSel, streaming).state.isValid
  /\ selection = EmptySelection

\* C4: right after clear() the state is the empty state and the live
\* selection has no range, whatever came before; a clear() that follows a
\* clear() changes neither.
C4_ClearIdempotent ==
  [][last'.op = "clear" =>
       /\ selection' = EmptySelection
       /\ liveSel'.ranges = <<>>
       /\ liveSel'.text = <<>>
       /\ last.op = "clear" => (selection' = selection /\ liveSel' = liveSel)
       /\ timers' = timers]_vars

\* clear() with the debounce timer waiting
C4_Witness ==
  /\ last.op = "clear"
  /\ timers # {}
  /\ atDispatch.state.isValid
  /\ selection = EmptySelection
  /\ liveSel = NoLive

\* C5: a click resets the state and collapses the live selection at once if
\* its target is outside every assistant message and outside the control,
\* and leaves both unchanged otherwise.
C5_ClickResetsIffOutside ==
  [][last'.op = "click" =>
       IF InsideAny(last'.target, AssistantMessages \cup FollowupButtons)
         THEN selection' = selection /\ liveSel' = liveSel
         ELSE selection' = EmptySelection /\ liveSel' = NoLive]_vars

\* what is left of C5 when the target is an element: the handler does
\* not throw, and resets exactly for the targets outside both
ClickOnElementResetsIffOutside ==
  [][(last'.op = "click" /\ nodeType(last'.target) = "ELEMENT_NODE") =>
       /\ ~last'.threw
       /\ IF InsideAny(last'.target, AssistantMessages \cup FollowupButtons)
            THEN selection' = selection /\ liveSel' = liveSel
            ELSE selection' = EmptySelection /\ liveSel' = NoLive]_vars

\* C6: the debounced callback and the click handler never throw; a lookup
\* that finds nothing counts as a failed validation.
C6_HandlersNeverThrow ==
  last.op \in {"timer", "click"} => ~last.threw

\* C7: an error in the activation is caught and logged and never leaves the
\* control, and leaves no stale state: the deferred caret placement never
\* throws out to the event loop, and when a call before the hook raises
\* after the follow-up was dispatched, the control does not stay up for the
\* selection the hook was to clear.
C7_ActivationFaultsContained ==
  /\ last.op = "caret" => ~last.threw
  /\ (/\ last.op = "activate"
      /\ Count("console.error", last.steps) > 0
      /\ Count("onFollowUp", last.steps) = 0
      /\ last.dispatched # <<>>
      /\ last.hook = "clearSelection") => rendered = NoRender

FollowUpOnSelectedText ==
  <<"F", "o", "l", "l", "o", "w", " ", "u", "p", " ", "o", "n", ":", " ",
    "\"", "s", "e", "l", "e", "c", "t", "e", "d", " ", "t", "e", "x", "t",
    "\"">>

\* p is Follow up on: "t"
IsFollowUpOn(p, t) ==
  /\ Len(p) = Len(t) + 16
  /\ SubSeq(p, 1, 15) =
       <<"F", "o", "l", "l", "o", "w", " ", "u", "p", " ", "o", "n", ":",
         " ", "\"">>
  /\ SubSeq(p, 16, Len(p) - 1) = t
  /\ p[Len(p)] = "\""

\* C8: an activation dispatches at most one notification, always with the
\* payload Follow up on: "t" for the text t of the state, and calls the hook
\* at most once and only after the dispatch; an activation in which no call
\* raises dispatches exactly one and calls the hook it was given exactly
\* once, and when that hook is clearSelection the state is empty and the
\* live selection collapsed afterwards.
C8_ActivationDispatchesThenClears ==
  [][last'.op = "activate" =>
       /\ selection.isValid
       /\ Len(last'.dispatched) <= 1
       /\ \A i \in 1..Len(last'.dispatched) :
            IsFollowUpOn(last'.dispatched[i], selection.text)
       /\ selection.text = TextSelected =>
            \A i \in 1..Len(last'.dispatched) :
              last'.dispatched[i] = FollowUpOnSelectedText
       /\ Count("onFollowUp", last'.steps) <= 1
       /\ \A i \in 1..Len(last'.steps) :
            last'.steps[i] = "onFollowUp" =>
              \E j \in 1..(i - 1) : last'.steps[j] = "dispatchEvent"
       /\ Count("console.error", last'.steps) = 0 =>
            /\ Len(last'.dispatched) = 1
            /\ last'.hook # "none" => Count("onFollowUp", last'.steps) = 1
            /\ last'.hook = "clearSelection" =>
                 (selection' = EmptySelection /\ liveSel' = NoLive)]_vars

C8_Witness ==
  /\ last.op = "activate"
  /\ last.dispatched = <<FollowUpOnSelectedText>>
  /\ last.hook = "clearSelection"
  /\ last.steps = <<"dispatchEvent", "focus", "setTimeout", "onFollowUp">>
  /\ selection = EmptySelection
  /\ liveSel = NoLive

\* horizontal shift of the control's left edge for a translateX value
Shift(transform) ==
  CASE transform = "translateX(-50%)" -> -50
    [] transform = "translateX(-100%)" -> -100
    [] OTHER -> 0

\* C9: the rendered control, 100 wide and 40 high at the computed place,
\* lies inside the viewport on both axes; stated here for the selections
\* whose own bounding rect lies inside the viewport.
C9_ControlInsideViewport ==
  (/\ rendered # NoRender
   /\ 0 <= selection.boundingRect.left
   /\ selection.boundingRect.right <= viewport.innerWidth
   /\ 0 <= selection.boundingRect.top
   /\ selection.boundingRect.bottom <= viewport.innerHeight) =>
    /\ 0 <= rendered.left + Shift(rendered.transform)
    /\ rendered.left + Shift(rendered.transform) + 100 <= viewport.innerWidth
    /\ 0 <= rendered.top
    /\ rendered.top + 40 <= viewport.innerHeight

\* C10: the rendered anchor is the one the reference rule gives for the
\* state's bounding rect and the viewport, and the two worked examples come
\* out as stated.
C10_AnchorMatchesRule ==
  rendered # NoRender =>
    LET rect == selection.boundingRect
        W == viewport.innerWidth
        H == viewport.innerHeight
    IN  /\ rendered.top =
             IF rect.bottom + 8 + 40 > H THEN rect.top - 48 ELSE rect.bottom + 8
        /\ IF rect.right - 100 < 0
             THEN rendered.left = rect.left
                    /\ rendered.transform = "translateX(0)"
           ELSE IF rect.right > W
             THEN rendered.left = rect.right
                    /\ rendered.transform = "translateX(-100%)"
           ELSE rendered.left = rect.right - 50
                  /\ rendered.transform = "translateX(-50%)"
        /\ (rect = CopyRect(RectA) /\ viewport = Viewport(1000, 800)) =>
             rendered =
               [top |-> 728, left |-> 900, transform |-> "translateX(-50%)"]
        /\ (rect = CopyRect(RectB) /\ viewport = Viewport(1000, 800)) =>
             rendered = [top |-> 38, left |-> 0, transform |-> "translateX(0)"]

\* the first worked example, rendered
C10_Witness ==
  /\ last.op = "timer"
  /\ viewport = Viewport(1000, 800)
  /\ selection.isValid
  /\ selection.boundingRect = CopyRect(RectA)
  /\ rendered = [top |-> 728, left |-> 900, transform |-> "translateX(-50%)"]


\* the characters of s from its first to its last non-whitespace one
Core(s) ==
  LET inked == {i \in 1..Len(s) : s[i] \notin Whitespace} IN
  IF inked = {} THEN <<>>
  ELSE SubSeq(s, CHOOSE i \in inked : \A j \in inked : i <= j,
                 CHOOSE i \in inked : \A j \in inked : i >= j)

\* the validator's answer for the i-th range of the live selection
Validated(i) == validateSelection(liveSel.text, liveSel.ranges[i], streaming)

\* C11: a selected text of fewer than 5 characters once its surrounding
\* whitespace is stripped is rejected by the validator whatever the range,
\* the tree and the loading indicator, and the debounced callback that finds
\* such a selection leaves the state empty.
C11_ShortTextInvalid ==
  Len(Core(liveSel.text)) < 5 =>
    /\ \A i \in 1..Len(liveSel.ranges) : Validated(i) = Returns(FALSE)
    /\ validateSelection(liveSel.text, NoRange, streaming) = Returns(FALSE)
    /\ last.op = "timer" => (~last.threw /\ selection = EmptySelection)

\* " hi   ", six characters of which two remain, selected inside msg1 while
\* msg1 is complete: only the length rule rejects it
C11_Witness ==
  /\ last.op = "timer"
  /\ liveSel = Live(TextShort, <<Range("text1", "text1", RectA)>>)
  /\ "msg1" \notin streaming
  /\ Len(liveSel.text) >= 5
  /\ selection = EmptySelection

\* C12: a selected text that, once trimmed, is made of whitespace and
\* punctuation characters only is rejected by the validator whatever its
\* length and its range, and the debounced callback leaves the state empty.
C12_PunctuationOnlyInvalid ==
  (\A i \in 1..Len(Core(liveSel.text)) :
      Core(liveSel.text)[i] \in Whitespace \cup Punctuation) =>
    /\ \A i \in 1..Len(liveSel.ranges) : Validated(i) = Returns(FALSE)
    /\ validateSelection(liveSel.text, NoRange, streaming) = Returns(FALSE)
    /\ last.op = "timer" => (~last.threw /\ selection = EmptySelection)

\* "?!...!", long enough for the length rule, selected inside msg1 while
\* msg1 is complete
C12_Witness ==
  /\ last.op = "timer"
  /\ liveSel = Live(TextPunct, <<Range("text1", "text1", RectA)>>)
  /\ Len(trim(liveSel.text)) >= 5
  /\ "msg1" \notin streaming
  /\ selection = EmptySelection

\* the nearest assistant message a node lies in, NoNode when it lies in none
NearestMessage(n) ==
  LET a == Ancestors(n)
      hits == {i \in 1..Len(a) : a[i] \in AssistantMessages} IN
  IF hits = {} THEN NoNode ELSE a[CHOOSE i \in hits : \A j \in hits : i <= j]

\* the ends of a range lie in different assistant messages, or one in none
EndsApart(range) ==
  \/ NearestMessage(range.startContainer) # NearestMessage(range.endContainer)
  \/ NearestMessage(range.startContainer) = NoNode
  \/ NearestMessage(range.endContainer) = NoNode

\* C13: a range whose start and end lie in different nearest assistant
\* messages, or one of them in none, is rejected by the validator (it
\* returns false) whatever the text and the loading indicator.
C13_EndsApartInvalid ==
  \A i \in 1..Len(liveSel.ranges) :
    EndsApart(liveSel.ranges[i]) => Validated(i) = Returns(FALSE)

\* what is left of C13 when the answer is allowed to be a TypeError: the
\* validator never accepts such a range, and it throws only when the common
\* ancestor is a node without closest()
EndsApartNeverAccepted ==
  \A i \in 1..Len(liveSel.ranges) :
    EndsApart(liveSel.ranges[i]) =>
      /\ ~Validated(i).value
      /\ Validated(i).threw =>
           ~HasClosest(ElementOf(commonAncestorContainer(liveSel.ranges[i])))
      /\ last.op = "timer" => selection = EmptySelection

\* a text that qualifies, from msg1's own paragraph into the marked element
\* nested in msg1, nothing loading: rejected by the comparison of line 53
EndsApartInsideOneMessage ==
  /\ last.op = "timer"
  /\ ~last.threw
  /\ liveSel.ranges = <<Range("text1", "text5", RectA)>>
  /\ Len(Core(liveSel.text)) >= 5
  /\ ~OnlySpaceOrPunct(liveSel.text)
  /\ streaming = {}
  /\ selection = EmptySelection

\* the assistant message that encloses a range is showing the indicator
EnclosedByStreaming(range) ==
  /\ NearestMessage(commonAncestorContainer(range)) # NoNode
  /\ NearestMessage(commonAncestorContainer(range)) \in streaming

\* C14: a selection whose enclosing assistant message carries the streaming
\* marker when it is validated is rejected by the validator, and the
\* debounced callback sets the empty state, whatever the text and the range.
C14_StreamingInvalid ==
  /\ \A i \in 1..Len(liveSel.ranges) :
       EnclosedByStreaming(liveSel.ranges[i]) => Validated(i) = Returns(FALSE)
  /\ (/\ last.op = "timer"
      /\ liveSel.ranges # <<>>
      /\ EnclosedByStreaming(liveSel.ranges[1])) =>
       (~last.threw /\ selection = EmptySelection)

\* a selection inside msg2 that is valid but for the indicator msg2 shows
C14_Witness ==
  /\ last.op = "timer"
  /\ liveSel.ranges = <<Range("text2", "text2", RectA)>>
  /\ streaming = {"msg2"}
  /\ validateSelection(liveSel.text, liveSel.ranges[1], {}) = Returns(TRUE)
  /\ selection = EmptySelection

\* the characters of s that are neither whitespace nor punctuation
Letters(s) == {i \in 1..Len(s) : s[i] \notin Whitespace \cup Punctuation}

\* the common ancestor, the start and the end of a range have one and the
\* same assistant message as their message, and it shows no indicator
InsideOneCompleteMessage(range) ==
  LET m == NearestMessage(commonAncestorContainer(range)) IN
  /\ m # NoNode
  /\ NearestMessage(range.startContainer) = m
  /\ NearestMessage(range.endContainer) = m
  /\ m \notin streaming

\* C15: a selection whose common ancestor, start and end lie inside one and
\* the same assistant message that shows no streaming marker, with a text of
\* at least 5 characters that are neither whitespace nor punctuation, is
\* accepted by the validator, and the debounced callback sets the state
\* valid for it.
C15_InsideOneMessageValid ==
  Cardinality(Letters(liveSel.text)) >= 5 =>
    /\ \A i \in 1..Len(liveSel.ranges) :
         InsideOneCompleteMessage(liveSel.ranges[i]) =>
           Validated(i) = Returns(TRUE)
    /\ (/\ last.op = "timer"
        /\ liveSel.ranges # <<>>
        /\ InsideOneCompleteMessage(liveSel.ranges[1])) =>
         /\ ~last.threw
         /\ selection.isValid
         /\ selection.text = Core(liveSel.text)
         /\ rendered # NoRender

\* " hello\n" selected from msg1 itself to the text of its paragraph while
\* another message shows the indicator
C15_Witness ==
  /\ last.op = "timer"
  /\ liveSel = Live(TextPadded, <<Range("msg1", "text1", RectA)>>)
  /\ streaming = {"msg2"}
  /\ selection.isValid
  /\ selection.text = <<"h", "e", "l", "l", "o">>

\* the state the claim of C16 prescribes for a live selection
Prescribed(live) ==
  IF live.text = <<>> \/ live.ranges = <<>> THEN EmptySelection
  ELSE IF validateSelection(live.text, live.ranges[1], streaming) = Returns(TRUE)
    THEN [text |-> Core(live.text), isValid |-> TRUE,
          range |-> live.ranges[1],
          boundingRect |->
            [top |-> live.ranges[1].rect.top,
             left |-> live.ranges[1].rect.left,
             right |-> live.ranges[1].rect.right,
             bottom |-> live.ranges[1].rect.bottom,
             width |-> live.ranges[1].rect.right - live.ranges[1].rect.left,
             height |-> live.ranges[1].rect.bottom - live.ranges[1].rect.top]]
    ELSE EmptySelection

\* C16: when the debounce timer fires, the state becomes a function of the
\* live selection at that moment: empty without selected text or without a
\* range; valid, with the trimmed text and the first range's rect, when the
\* validator accepts the first range; empty otherwise.
C16_FiringSetsStateFromLiveSelection ==
  last.op = "timer" => selection = Prescribed(liveSel)

\* what is left of C16 when the validator does not throw
FiringSetsStateUnlessThrown ==
  (last.op = "timer" /\ ~last.threw) => selection = Prescribed(liveSel)

\* C17: the two axes of the positioning never interact.  Whatever left and
\* right edge and whatever viewport width replace those of the rendered
\* selection, the vertical coordinate is the one rendered; whatever top and
\* bottom edge and whatever viewport height replace them, the horizontal
\* anchor and the translation are the ones rendered.
C17_AxesIndependent ==
  rendered # NoRender =>
    /\ \A l \in PosLefts, r \in PosLefts, vp \in PosViewports :
         l < r =>
           buttonStyle([selection.boundingRect EXCEPT !.left = l, !.right = r],
                       [viewport EXCEPT !.innerWidth = vp.innerWidth]).top
             = rendered.top
    /\ \A t \in PosTops, b \in PosTops, vp \in PosViewports :
         t < b =>
           LET other ==
                 buttonStyle(
                   [selection.boundingRect EXCEPT !.top = t, !.bottom = b],
                   [viewport EXCEPT !.innerHeight = vp.innerHeight]) IN
           /\ other.left = rendered.left
           /\ other.transform = rendered.transform

\* a control that was both pinned to the right edge of the selection and
\* flipped above it
C17_Witness ==
  /\ last.op = "timer"
  /\ rendered # NoRender
  /\ rendered.transform = "translateX(-100%)"
  /\ rendered.top = selection.boundingRect.top - buttonHeight - Gap
  /\ rendered.top # selection.boundingRect.bottom + Gap

\* C18: at most one debounce timer is pending at any time, whatever the
\* interleaving of notifications, firings, clicks, clear() and stop(); the
\* pending timer is the one selectionTimeoutRef holds, and none is pending
\* once the tracker has stopped.
C18_AtMostOneTimer ==
  /\ Cardinality(timers) <= 1
  /\ \A t \in timers : t.id = selectionTimeoutRef
  /\ phase = "stopped" => timers = {}

\* a third notification in a row replaced the pending timer of the second
C18_Witness ==
  /\ last.op = "selectionchange"
  /\ burst = 3
  /\ timers = {[id |-> 3, remaining |-> DebounceMs]}

\* C19: clear() and an outside click leave a pending debounce timer pending,
\* and that timer does not bring a selection back: from such a reset on, as
\* long as the live selection is not changed and no new notification
\* replaces the timer, the state is empty, after the timer has fired too,
\* and the firing does not throw.
C19_ResetNotUndoneByTimer ==
  /\ (resetWhilePending /\ passes = 0 /\ phase = "started") =>
       timers = {[id |-> selectionTimeoutRef,
                  remaining |-> DebounceMs - elapsed]}
  /\ resetWhilePending => selection = EmptySelection
  /\ (last.op = "timer" /\ resetWhilePending) => ~last.threw

\* the selection was valid when the notification came, clear() or an outside
\* click reset the state within the 100ms, and the timer has fired since
C19_Witness ==
  /\ last.op = "timer"
  /\ resetWhilePending
  /\ atDispatch.state.isValid
  /\ passes = 1
  /\ selection = EmptySelection

\* the debounced callback has just run and left the state the live
\* selection prescribes
Answered == last.op = "timer" /\ selection = Prescribed(liveSel)

\* C20: every notification is eventually answered.  While the tracker is
\* started and a timer is pending, then, notifications being finitely many,
\* the timer eventually fires and the state is the validation result of
\* the live selection, unless the tracker is stopped first; and the
\* callback never runs less than 100ms after the latest notification.
C20_NotificationsAnswered ==
  /\ [](phase = "started" /\ timers # {}
          => <>(Answered \/ phase = "stopped"))
  /\ [][last'.op = "timer" => elapsed = DebounceMs]_vars

\* what is left of C20 when the validator is allowed to throw: the timer
\* eventually fires, and the state is the prescribed one unless it threw
NotificationsAnsweredUnlessThrown ==
  /\ [](phase = "started" /\ timers # {}
          => <>(\/ Answered
                \/ last.op = "timer" /\ last.threw
                \/ phase = "stopped"))
  /\ [][last'.op = "timer" => elapsed = DebounceMs]_vars
====
